---- MODULE Spec2Model ----
(***************************************************************************)
(* Model of the asynchronous image loader of cineMaticAnalyser.py:         *)
(* ImageCacheLoader (cache, request queue, worker thread, deferred         *)
(* assignment through Tk's after()), its two callers                       *)
(* (DashboardFrame.refresh_cards and DetailsModal.__init__) and the theme  *)
(* the compositor reads.                                                   *)
(*                                                                         *)
(* Two threads: the UI thread (Tk event loop, actions UI...) and the one   *)
(* worker thread (actions Worker...).  Each action is one step between two *)
(* points where the other thread may run.                                  *)
(***************************************************************************)
EXTENDS Integers, Sequences, FiniteSets, TLC

\* ---------------------------------------------------------------- bounds
\* number of request() calls (each caller creates a fresh label per call)
MaxRequests == 2

\* how many request() calls the callers make in the runs that range over
\* every filesystem
MaxResolveCalls == 2

\* the longest side, in pixels, of the raw images the sources deliver
MaxRawDim == 601

\* ------------------------------------------------------------ references
\* Strings are sequences of characters so that startswith() is computed.
HttpPrefix == <<"h", "t", "t", "p">>
RefEmpty == <<>>
RefHttp == <<"h", "t", "t", "p", "a">>
RefLocal == <<"p", "n", "g">>
Refs == {RefEmpty, RefHttp, RefLocal}

\* self.fallback_paths: INF.png, 404.webp in the workspace directory
fallback_paths == << <<"I", "N", "F">>, <<"4", "0", "4">> >>

Paths == {RefLocal, fallback_paths[1], fallback_paths[2]}

\* what the filesystem holds at a path: nothing, a good image, a file
\* Image.open rejects, or a file Image.open accepts (it reads the header
\* only) and whose pixel data cannot be loaded
FileKinds == {"missing", "image", "corrupt", "truncated"}

\* the filesystem the runs start from: the local reference is a good image
\* and no fallback file is there.  A local reference then always resolves, a
\* network reference resolves when the network answers, the empty reference
\* never does.
FsLocalOnly == [p \in Paths |-> IF p = RefLocal THEN "image" ELSE "missing"]

\* no file at all: a network reference resolves when the network answers,
\* every other reference fails
FsNothing == [p \in Paths |-> "missing"]

\* the local image is cut short, no fallback file is there
FsTruncatedLocal ==
    [p \in Paths |-> IF p = RefLocal THEN "truncated" ELSE "missing"]

\* str.startswith
StartsWith(s, p) == Len(s) >= Len(p) /\ SubSeq(s, 1, Len(p)) = p

\* ----------------------------------------------------------------- theme
\* ThemeManager.themes[...]["card"], lines 26-50
ThemeTable ==
    [t \in {"dark", "light"} |->
        IF t = "dark" THEN <<"#", "1", "8", "1", "8", "1", "8">>
        ELSE <<"#", "F", "F", "F", "F", "F", "F">>]

\* a theme without the key "card": get raises KeyError
KeyMissing == <<"KeyError">>

\* card colours a theme may hand to the loader: the dark theme's, a non-hex
\* digit, a short form, no leading '#', the empty string, no value at all
CardColours ==
    {<<"#", "1", "8", "1", "8", "1", "8">>,
     <<"#", "G", "G", "1", "8", "1", "8">>,
     <<"#", "F", "F", "F">>,
     <<"1", "8", "1", "8", "1", "8">>,
     <<>>,
     KeyMissing}

HexChars == <<"0", "1", "2", "3", "4", "5", "6", "7", "8", "9",
              "A", "B", "C", "D", "E", "F">>

IsHex(c) == \E i \in 1..16 : HexChars[i] = c

HexDigit(c) == (CHOOSE i \in 1..16 : HexChars[i] = c) - 1

\* bg_hex[i:i+2] with Python's 0-based i; slices past the end are shorter
Slice2(s, i) == SubSeq(s, i + 1, IF i + 2 <= Len(s) THEN i + 2 ELSE Len(s))

\* int(txt, 16) raises ValueError on the empty string and on a non-hex digit
IntHexOk(txt) == Len(txt) > 0 /\ \A k \in 1..Len(txt) : IsHex(txt[k])

IntHex(txt) ==
    IF Len(txt) = 1 THEN HexDigit(txt[1])
    ELSE 16 * HexDigit(txt[1]) + HexDigit(txt[2])

\* lines 344-345: does the expression raise.  A theme without the key
\* raises at get (line 54); int() raises on a slice that is no hex number.
BgRgbRaises(bg_hex) ==
    \/ bg_hex = KeyMissing
    \/ /\ StartsWith(bg_hex, <<"#">>)
       /\ \E i \in {1, 3, 5} : ~IntHexOk(Slice2(bg_hex, i))

\* line 345: the value when it does not raise
BgRgb(bg_hex) ==
    IF StartsWith(bg_hex, <<"#">>)
    THEN <<IntHex(Slice2(bg_hex, 1)), IntHex(Slice2(bg_hex, 3)), IntHex(Slice2(bg_hex, 5))>>
    ELSE <<24, 24, 24>>

\* ---------------------------------------------------------------- values
\* img is None
NoImage == [src |-> "none", path |-> <<>>]

\* no PhotoImage (an unset label image, an unbound local)
NoPhoto == [id |-> 0, url |-> <<>>, w |-> 0, h |-> 0, bg |-> <<0, 0, 0>>,
            masked |-> FALSE, img |-> NoImage, scaled |-> <<0, 0>>,
            paste |-> <<0, 0>>]

\* Python's round() of the fraction n / d: to the nearest integer, a tie to
\* the even one
RoundHalfEven(n, d) ==
    LET q == n \div d
        r == n % d
    IN IF 2 * r < d THEN q
       ELSE IF 2 * r > d THEN q + 1
       ELSE IF q % 2 = 0 THEN q ELSE q + 1

\* line 342, ImageOps.contain(img, (W, H)): the size it resizes to.  Equal
\* ratios keep the target; a wider image keeps W and gets the height
\* round(h / w * W); a taller one keeps H and gets the width
\* round(w / h * H).
Contain(raw, target) ==
    LET w == raw[1]
        h == raw[2]
        W == target[1]
        H == target[2]
    IN IF w * H = h * W THEN <<W, H>>
       ELSE IF w * H > h * W
            THEN <<W, RoundHalfEven(h * W, w)>>
            ELSE <<RoundHalfEven(w * H, h), H>>

\* line 342: Image.resize raises ValueError on a size with a zero side
ResizeRaises(size) == size[1] < 1 \/ size[2] < 1

\* a raw image with the proportions of a poster
RawPoster == <<2, 3>>

\* the raw sizes the runs over image sizes draw from
RawDims == {1, 2, 3, MaxRawDim}

\* the (width, height) the two callers pass
CardSize == <<140, 210>>
PosterSize == <<200, 300>>
Kinds == {"card", "poster"}
SizeOf(kind) == IF kind = "card" THEN CardSize ELSE PosterSize

\* ------------------------------------------------------------------ dict
\* a membership test that never finds the key
InCacheNever(d, k) == FALSE

\* self.cache is a dict: a set of (key, value) entries
InCache(d, k) == \E e \in d : e.key = k

Lookup(d, k) == (CHOOSE e \in d : e.key = k).val

\* a cache that evicts: the insert drops every other entry
DictSetEvicting(d, k, v) == {[key |-> k, val |-> v]}

\* d[k] = v
DictSet(d, k, v) == {e \in d : e.key # k} \cup {[key |-> k, val |-> v]}

\* ----------------------------------------------------------------- state
VARIABLES
    cache,             \* ImageCacheLoader.cache
    queue,             \* ImageCacheLoader.queue: the items put and not yet got
    unfinished_tasks,  \* queue.Queue.unfinished_tasks
    current_theme,     \* ThemeManager.current_theme
    fs,                \* the filesystem: what each path holds
    rounded_ok,        \* whether ImageDraw can draw the rounded mask
    raw_size,          \* the (width, height) of the images the sources deliver
    themes,            \* ThemeManager.themes: the card colour of each theme
    max_calls,         \* how many request() calls the callers make in the run
    labels,            \* the labels the callers created, by label number
    ui,                \* the UI thread: where it is, and the label it works on
    wk,                \* the worker thread: where it is, and _worker's locals
    pending,           \* Tk's timer queue: the after(0, assign) callbacks
    calls,             \* history: one record per request() call
    inserted           \* history: the references a cache insert happened for

vars == <<cache, queue, unfinished_tasks, current_theme, fs, rounded_ok,
          raw_size, themes, max_calls, labels, ui, wk, pending, calls, inserted>>

\* the environment, which no step changes
env == <<fs, rounded_ok, raw_size, themes, max_calls>>

\* ThemeManager.get("card"), line 54
ThemeCard(theme) == themes[theme]

\* the item request() puts: (url, "GET", width, height, target_label)
Item(url, width, height, l) ==
    [url |-> url, method |-> "GET", width |-> width, height |-> height,
     target_label |-> l]

PathKind(p) == IF p \in DOMAIN fs THEN fs[p] ELSE "missing"

\* os.path.exists
Exists(p) == PathKind(p) # "missing"

\* Image.open succeeds
Opens(p) == PathKind(p) \in {"image", "truncated"}

\* the state of the loader, its theme manager and its callers when the
\* worker thread is started (line 286), the UI thread being at pc
InitLoaderAt(pc) ==
    /\ cache = {}
    /\ queue = <<>>
    /\ unfinished_tasks = 0
    /\ current_theme = "dark"
    /\ labels = <<>>
    /\ ui = [pc |-> pc, cur |-> 0]
    /\ wk = [pc |-> "get", url |-> <<>>, width |-> 0, height |-> 0,
             target_label |-> 0, steps |-> <<>>, img |-> NoImage,
             photo |-> NoPhoto]
    /\ pending = <<>>
    /\ calls = <<>>
    /\ inserted = {}

\* the state of the loader, its theme manager and its callers after
\* ImageCacheLoader(theme)
InitLoader == InitLoaderAt("idle")

\* the state after ImageCacheLoader(theme), on a disk that holds files, in a
\* run of n request() calls, with the application's theme table and a
\* platform that draws the rounded mask
InitWith(files, n) ==
    /\ InitLoader
    /\ fs = files
    /\ rounded_ok = TRUE
    /\ raw_size = RawPoster
    /\ themes = ThemeTable
    /\ max_calls = n

Init == InitWith(FsLocalOnly, MaxRequests)

\* ------------------------------------------------------------- UI thread
\* a label: alive until destroyed; shown is the image it displays
\* (configure(image=...)), image the attribute that retains it; writer is the
\* thread that last assigned shown, and by the request whose deferred assign
\* did it (0: none did)
NewLabel(kind) ==
    [alive |-> TRUE, kind |-> kind, shown |-> NoPhoto, image |-> NoPhoto,
     writer |-> "none", by |-> 0]

\* label.configure(image=photo), run by a thread
Configure(label, photo, thread, by) ==
    [label EXCEPT !.shown = photo, !.writer = thread, !.by = by]

NewCall(url, kind, hit) ==
    [url |-> url, width |-> SizeOf(kind)[1], height |-> SizeOf(kind)[2],
     hit |-> hit, after_insert |-> url \in inserted,
     outcome |-> "none", resolved |-> FALSE]

\* request(), lines 298-299, called with a label the caller just created:
\* the reference is in the cache, the label displays the cached surface
UIRequestHit(url, kind) ==
    /\ ui.pc = "idle"
    /\ Len(calls) < max_calls
    /\ InCache(cache, url)
    /\ LET l == Len(calls) + 1 IN
        /\ labels' = Append(labels,
                Configure(NewLabel(kind), Lookup(cache, url), "ui", 0))
        /\ calls' = Append(calls, NewCall(url, kind, TRUE))
        /\ ui' = [pc |-> "retain", cur |-> l]
    /\ UNCHANGED <<cache, queue, unfinished_tasks, current_theme, env, wk,
                   pending, inserted>>

\* request() without the return of line 301: the hit path falls through to
\* the put of line 302
UIRequestRetainNoReturn ==
    /\ ui.pc = "retain"
    /\ labels' = [labels EXCEPT ![ui.cur].image = Lookup(cache, calls[ui.cur].url)]
    /\ queue' = Append(queue, Item(calls[ui.cur].url, calls[ui.cur].width,
                                   calls[ui.cur].height, ui.cur))
    /\ unfinished_tasks' = unfinished_tasks + 1
    /\ ui' = [pc |-> "idle", cur |-> 0]
    /\ UNCHANGED <<cache, current_theme, env, wk, pending, calls, inserted>>

\* request(), lines 300-301: the label retains the cached surface; return
UIRequestRetain ==
    /\ ui.pc = "retain"
    /\ labels' = [labels EXCEPT ![ui.cur].image = Lookup(cache, calls[ui.cur].url)]
    /\ ui' = [pc |-> "idle", cur |-> 0]
    /\ UNCHANGED <<cache, queue, unfinished_tasks, current_theme, env, wk,
                   pending, calls, inserted>>

\* request() called while the constructor of the loader is still running
UIRequestMissEarly(url, kind) ==
    /\ ui.pc \in {"idle", "ctor_theme", "ctor_fallback"}
    /\ Len(calls) < max_calls
    /\ ~InCache(cache, url)
    /\ LET l == Len(calls) + 1 IN
        /\ labels' = Append(labels, NewLabel(kind))
        /\ calls' = Append(calls, NewCall(url, kind, FALSE))
        /\ queue' = Append(queue, Item(url, SizeOf(kind)[1], SizeOf(kind)[2], l))
    /\ unfinished_tasks' = unfinished_tasks + 1
    /\ UNCHANGED <<cache, current_theme, env, ui, wk, pending, inserted>>

\* request() that drops a miss whose reference is already queued or in
\* the worker's hands
UIRequestMissDedup(url, kind) ==
    /\ ui.pc = "idle"
    /\ Len(calls) < max_calls
    /\ ~InCache(cache, url)
    /\ LET l == Len(calls) + 1
           known == \/ \E i \in 1..Len(queue) : queue[i].url = url
                    \/ wk.pc \in {"fetch", "composite"} /\ wk.url = url
       IN
        /\ labels' = Append(labels, NewLabel(kind))
        /\ calls' = Append(calls, NewCall(url, kind, FALSE))
        /\ queue' = IF known THEN queue
                    ELSE Append(queue, Item(url, SizeOf(kind)[1], SizeOf(kind)[2], l))
        /\ unfinished_tasks' = IF known THEN unfinished_tasks
                               ELSE unfinished_tasks + 1
    /\ UNCHANGED <<cache, current_theme, env, ui, wk, pending, inserted>>

\* request() whose miss path puts the item twice
UIRequestMissTwice(url, kind) ==
    /\ ui.pc = "idle"
    /\ Len(calls) < max_calls
    /\ ~InCache(cache, url)
    /\ LET l == Len(calls) + 1
           item == Item(url, SizeOf(kind)[1], SizeOf(kind)[2], l) IN
        /\ labels' = Append(labels, NewLabel(kind))
        /\ calls' = Append(calls, NewCall(url, kind, FALSE))
        /\ queue' = Append(Append(queue, item), item)
    /\ unfinished_tasks' = unfinished_tasks + 2
    /\ UNCHANGED <<cache, current_theme, env, ui, wk, pending, inserted>>

\* request(), lines 298 and 302: the reference is not in the cache, put
UIRequestMiss(url, kind) ==
    /\ ui.pc = "idle"
    /\ Len(calls) < max_calls
    /\ ~InCache(cache, url)
    /\ LET l == Len(calls) + 1 IN
        /\ labels' = Append(labels, NewLabel(kind))
        /\ calls' = Append(calls, NewCall(url, kind, FALSE))
        /\ queue' = Append(queue, Item(url, SizeOf(kind)[1], SizeOf(kind)[2], l))
    /\ unfinished_tasks' = unfinished_tasks + 1
    /\ UNCHANGED <<cache, current_theme, env, ui, wk, pending, inserted>>

\* the callers: refresh_cards asks for a card, DetailsModal for a poster
UIRequest ==
    \E url \in Refs, kind \in Kinds :
        \/ UIRequestHit(url, kind)
        \/ UIRequestMiss(url, kind)

\* a callback that outlives the label after() was called on (one scheduled
\* on the root window): it runs although its label is gone
UIRunAssignUnbound ==
    /\ ui.pc = "idle"
    /\ pending # <<>>
    /\ pending' = Tail(pending)
    /\ IF labels[wk.target_label].alive
       THEN /\ labels' = [labels EXCEPT ![wk.target_label] =
                    Configure(@, wk.photo, "ui", Head(pending).by)]
            /\ ui' = [pc |-> "assign_retain", cur |-> 0]
       ELSE UNCHANGED <<labels, ui>>
    /\ UNCHANGED <<cache, queue, unfinished_tasks, current_theme, env, wk,
                   calls, inserted>>

\* the Tk event loop runs the oldest after(0, assign) callback.  The callback
\* is a Tcl command of the label after() was called on: it is deleted with
\* that label.  assign reads _worker's locals target_label and photo when it
\* runs (a closure holds the variables, not their values).
\* Line 363; a destroyed label raises, which assign swallows.
UIRunAssign ==
    /\ ui.pc = "idle"
    /\ pending # <<>>
    /\ pending' = Tail(pending)
    /\ IF labels[Head(pending).via].alive /\ labels[wk.target_label].alive
       THEN /\ labels' = [labels EXCEPT ![wk.target_label] =
                    Configure(@, wk.photo, "ui", Head(pending).by)]
            /\ ui' = [pc |-> "assign_retain", cur |-> 0]
       ELSE UNCHANGED <<labels, ui>>
    /\ UNCHANGED <<cache, queue, unfinished_tasks, current_theme, env, wk,
                   calls, inserted>>

\* assign, line 364
UIAssignRetain ==
    /\ ui.pc = "assign_retain"
    /\ labels' = [labels EXCEPT ![wk.target_label].image = wk.photo]
    /\ ui' = [pc |-> "idle", cur |-> 0]
    /\ UNCHANGED <<cache, queue, unfinished_tasks, current_theme, env, wk,
                   pending, calls, inserted>>

\* refresh_cards, lines 835-836: every card of the dashboard is destroyed
UIRefreshCardsDestroy ==
    /\ ui.pc = "idle"
    /\ \E l \in 1..Len(labels) : labels[l].kind = "card" /\ labels[l].alive
    /\ labels' = [l \in 1..Len(labels) |->
                    IF labels[l].kind = "card"
                    THEN [labels[l] EXCEPT !.alive = FALSE]
                    ELSE labels[l]]
    /\ UNCHANGED <<cache, queue, unfinished_tasks, current_theme, env, ui, wk,
                   pending, calls, inserted>>

\* DetailsModal's Close button: the modal and its poster label are destroyed
UIModalDestroy ==
    /\ ui.pc = "idle"
    /\ \E l \in 1..Len(labels) :
        /\ labels[l].kind = "poster"
        /\ labels[l].alive
        /\ labels' = [labels EXCEPT ![l].alive = FALSE]
    /\ UNCHANGED <<cache, queue, unfinished_tasks, current_theme, env, ui, wk,
                   pending, calls, inserted>>

\* ImageCacheLoader.__init__, line 287: self.theme = theme, the worker
\* thread running since line 286
CtorAssignTheme ==
    /\ ui.pc = "ctor_theme"
    /\ ui' = [ui EXCEPT !.pc = "ctor_fallback"]
    /\ UNCHANGED <<cache, queue, unfinished_tasks, current_theme, env, labels,
                   wk, pending, calls, inserted>>

\* ImageCacheLoader.__init__, lines 289-292: self.fallback_paths = [...];
\* the constructor returns and the application goes on to its event loop
CtorAssignFallbacks ==
    /\ ui.pc = "ctor_fallback"
    /\ ui' = [ui EXCEPT !.pc = "idle"]
    /\ UNCHANGED <<cache, queue, unfinished_tasks, current_theme, env, labels,
                   wk, pending, calls, inserted>>

\* self.theme is assigned
ThemeAssigned == ui.pc # "ctor_theme"

\* self.fallback_paths is assigned
FallbacksAssigned == ui.pc \notin {"ctor_theme", "ctor_fallback"}

\* CineMaticApp._toggle_theme: ThemeManager.toggle, then navigate, which
\* only shows the current page again
UIToggleTheme ==
    /\ ui.pc = "idle"
    /\ current_theme' = IF current_theme = "dark" THEN "light" ELSE "dark"
    /\ UNCHANGED <<cache, queue, unfinished_tasks, env, labels, ui, wk,
                   pending, calls, inserted>>

\* --------------------------------------------------------- worker thread
\* the outcomes of requests.get + Image.open of the body (lines 310-314):
\* "ok" is status 200 with decodable bytes, "fail" is everything else
NetOutcomes == {"ok", "fail"}

\* a walk that goes on after a fallback opened: the last that opens wins
RECURSIVE FallbackLastFrom(_)
FallbackLastFrom(i) ==
    IF i > Len(fallback_paths) THEN NoImage
    ELSE IF FallbackLastFrom(i + 1) # NoImage
         THEN FallbackLastFrom(i + 1)
         ELSE IF Exists(fallback_paths[i]) /\ Opens(fallback_paths[i])
              THEN [src |-> "fallback", path |-> fallback_paths[i]]
              ELSE NoImage

\* _fetch_image, lines 324-330: the first fallback that exists and opens
RECURSIVE FallbackFrom(_)
FallbackFrom(i) ==
    IF i > Len(fallback_paths) THEN NoImage
    ELSE IF Exists(fallback_paths[i]) /\ Opens(fallback_paths[i])
         THEN [src |-> "fallback", path |-> fallback_paths[i]]
         ELSE FallbackFrom(i + 1)

\* a resolver that walks the fallbacks before it looks at the local path
FetchImageFallbackFirst(url, net) ==
    IF url # <<>> /\ StartsWith(url, HttpPrefix) /\ net = "ok"
    THEN [src |-> "net", path |-> url]
    ELSE IF FallbackFrom(1) # NoImage
         THEN FallbackFrom(1)
         ELSE IF url # <<>> /\ Exists(url) /\ Opens(url)
              THEN [src |-> "local", path |-> url]
              ELSE NoImage

\* _fetch_image, lines 304-330; net is what the network does if it is asked
_fetch_image(url, net) ==
    IF url # <<>> /\ StartsWith(url, HttpPrefix) /\ net = "ok"
    THEN [src |-> "net", path |-> url]
    ELSE IF url # <<>> /\ Exists(url) /\ Opens(url)
         THEN [src |-> "local", path |-> url]
         ELSE FallbackFrom(1)

\* _fetch_image, lines 324-330, as the attempts made: one per fallback
\* looked at, up to the first that exists and opens
RECURSIVE FallbackSteps(_)
FallbackSteps(i) ==
    IF i > Len(fallback_paths) THEN <<>>
    ELSE LET got == Exists(fallback_paths[i]) /\ Opens(fallback_paths[i])
             this == [step |-> "fallback", path |-> fallback_paths[i], got |-> got]
         IN IF got THEN <<this>> ELSE <<this>> \o FallbackSteps(i + 1)

\* _fetch_image, lines 304-330, as the attempts made, in order: the network
\* get (lines 307-314), the local path (lines 319-320), the fallbacks; got
\* is whether the attempt returned an image
FetchSteps(url, net) ==
    LET net_step ==
            IF url # <<>> /\ StartsWith(url, HttpPrefix)
            THEN <<[step |-> "net", path |-> url, got |-> net = "ok"]>>
            ELSE <<>>
        local_step ==
            IF url # <<>>
            THEN <<[step |-> "local", path |-> url,
                    got |-> Exists(url) /\ Opens(url)]>>
            ELSE <<>>
    IN IF net_step # <<>> /\ net_step[1].got THEN net_step
       ELSE IF local_step # <<>> /\ local_step[1].got
            THEN net_step \o local_step
            ELSE net_step \o local_step \o FallbackSteps(1)

\* line 342, img.convert("RGB"), loads the pixel data and raises when the
\* file is cut short
ConvertRaises(img) ==
    img.src \in {"local", "fallback"} /\ PathKind(img.path) = "truncated"

\* queue.Queue.task_done: raises ValueError, and changes nothing, when the
\* counter would become negative
task_done(n) == IF n - 1 < 0 THEN n ELSE n - 1

\* lines 341-358: the PhotoImage built for the request in the worker's
\* locals: a canvas of the target size in the theme's card colour, the image
\* pasted on it, the rounded mask applied if it can be drawn (lines 351-357)
Composite(id) ==
    LET resized == Contain(raw_size, <<wk.width, wk.height>>) IN
    [id |-> id, url |-> wk.url, w |-> wk.width, h |-> wk.height,
     bg |-> BgRgb(ThemeCard(current_theme)), masked |-> rounded_ok,
     img |-> wk.img, scaled |-> resized,
     paste |-> <<(wk.width - resized[1]) \div 2,
                 (wk.height - resized[2]) \div 2>>]

\* lines 342-345: does the compositor raise before it has a canvas
CompositeRaises ==
    \/ ConvertRaises(wk.img)
    \/ ResizeRaises(Contain(raw_size, <<wk.width, wk.height>>))
    \/ BgRgbRaises(ThemeCard(current_theme))

\* the request the worker is processing (the label numbers the request)
Cur == wk.target_label

\* a second worker thread on the same loop: it takes the next item while
\* the first is still busy with its own
WorkerGetSecondThread ==
    /\ wk.pc \in {"get", "fetch", "composite"}
    /\ queue # <<>>
    /\ wk' = [wk EXCEPT !.pc = "fetch",
                        !.url = Head(queue).url,
                        !.width = Head(queue).width,
                        !.height = Head(queue).height,
                        !.target_label = Head(queue).target_label]
    /\ queue' = Tail(queue)
    /\ UNCHANGED <<cache, unfinished_tasks, current_theme, env, labels, ui,
                   pending, calls, inserted>>

\* a worker on a LifoQueue: get takes the item put last
WorkerGetLifo ==
    /\ wk.pc = "get"
    /\ queue # <<>>
    /\ wk' = [wk EXCEPT !.pc = "fetch",
                        !.url = queue[Len(queue)].url,
                        !.width = queue[Len(queue)].width,
                        !.height = queue[Len(queue)].height,
                        !.target_label = queue[Len(queue)].target_label]
    /\ queue' = SubSeq(queue, 1, Len(queue) - 1)
    /\ UNCHANGED <<cache, unfinished_tasks, current_theme, env, labels, ui,
                   pending, calls, inserted>>

\* line 335, an item is there: the locals url, width, height and
\* target_label are rebound
WorkerGet ==
    /\ wk.pc = "get"
    /\ queue # <<>>
    /\ wk' = [wk EXCEPT !.pc = "fetch",
                        !.url = Head(queue).url,
                        !.width = Head(queue).width,
                        !.height = Head(queue).height,
                        !.target_label = Head(queue).target_label]
    /\ queue' = Tail(queue)
    /\ UNCHANGED <<cache, unfinished_tasks, current_theme, env, labels, ui,
                   pending, calls, inserted>>

\* line 335, the queue stayed empty for the timeout: queue.Empty, line 369
WorkerGetEmpty ==
    /\ wk.pc = "get"
    /\ queue = <<>>
    /\ wk' = [wk EXCEPT !.pc = "finally"]
    /\ UNCHANGED <<cache, queue, unfinished_tasks, current_theme, env, labels,
                   ui, pending, calls, inserted>>

\* a resolver whose local-path step has no try/except: a file that
\* Image.open rejects raises out of _fetch_image, which line 371 swallows
WorkerFetchRaises ==
    /\ wk.pc = "fetch"
    /\ \E net \in NetOutcomes :
        LET img == _fetch_image(wk.url, net)
            raises == /\ ~(StartsWith(wk.url, HttpPrefix) /\ net = "ok")
                      /\ wk.url # <<>>
                      /\ Exists(wk.url)
                      /\ ~Opens(wk.url)
        IN
        IF raises
        THEN /\ wk' = [wk EXCEPT !.pc = "finally", !.img = NoImage,
                                 !.steps = <<[step |-> "local", path |-> wk.url,
                                              got |-> FALSE]>>]
             /\ calls' = [calls EXCEPT ![Cur].outcome = "aborted"]
             /\ UNCHANGED unfinished_tasks
        ELSE IF img = NoImage
        THEN /\ wk' = [wk EXCEPT !.pc = "finally", !.img = img,
                                 !.steps = FetchSteps(wk.url, net)]
             /\ unfinished_tasks' = task_done(unfinished_tasks)
             /\ calls' = [calls EXCEPT ![Cur].outcome = "dropped"]
        ELSE /\ wk' = [wk EXCEPT !.pc = "composite", !.img = img,
                                 !.steps = FetchSteps(wk.url, net)]
             /\ calls' = [calls EXCEPT ![Cur].resolved = TRUE]
             /\ UNCHANGED unfinished_tasks
    /\ UNCHANGED <<cache, queue, current_theme, env, labels, ui, pending,
                   inserted>>

\* lines 336-339: resolve; on None, task_done and continue (to finally)
WorkerFetch ==
    /\ wk.pc = "fetch"
    /\ \E net \in NetOutcomes :
        LET img == _fetch_image(wk.url, net) IN
        IF img = NoImage
        THEN /\ wk' = [wk EXCEPT !.pc = "finally", !.img = img,
                                 !.steps = FetchSteps(wk.url, net)]
             /\ unfinished_tasks' = task_done(unfinished_tasks)
             /\ calls' = [calls EXCEPT ![Cur].outcome = "dropped"]
        ELSE /\ wk' = [wk EXCEPT !.pc = "composite", !.img = img,
                                 !.steps = FetchSteps(wk.url, net)]
             /\ calls' = [calls EXCEPT ![Cur].resolved = TRUE]
             /\ UNCHANGED unfinished_tasks
    /\ UNCHANGED <<cache, queue, current_theme, env, labels, ui, pending,
                   inserted>>

\* a compositor that does not cache a surface made from a fallback image
WorkerCompositeSkipFallback ==
    /\ wk.pc = "composite"
    /\ IF CompositeRaises
       THEN /\ wk' = [wk EXCEPT !.pc = "finally"]
            /\ calls' = [calls EXCEPT ![Cur].outcome = "aborted"]
            /\ UNCHANGED <<cache, inserted>>
       ELSE /\ wk' = [wk EXCEPT !.pc = "schedule", !.photo = Composite(Cur)]
            /\ cache' = IF wk.img.src = "fallback" THEN cache
                        ELSE DictSet(cache, wk.url, Composite(Cur))
            /\ inserted' = IF wk.img.src = "fallback" THEN inserted
                           ELSE inserted \cup {wk.url}
            /\ calls' = [calls EXCEPT ![Cur].outcome = "composited"]
    /\ UNCHANGED <<queue, unfinished_tasks, current_theme, env, labels, ui,
                   pending>>

\* a compositor that leaves the cache insert to a later step, after the
\* delivery is scheduled
WorkerCompositeNoInsert ==
    /\ wk.pc = "composite"
    /\ IF CompositeRaises
       THEN /\ wk' = [wk EXCEPT !.pc = "finally"]
            /\ calls' = [calls EXCEPT ![Cur].outcome = "aborted"]
            /\ UNCHANGED <<cache, inserted>>
       ELSE /\ wk' = [wk EXCEPT !.pc = "schedule", !.photo = Composite(Cur)]
            /\ calls' = [calls EXCEPT ![Cur].outcome = "composited"]
            /\ UNCHANGED <<cache, inserted>>
    /\ UNCHANGED <<queue, unfinished_tasks, current_theme, env, labels, ui,
                   pending>>

\* a compositor without the try/except of lines 351-357: a mask that cannot
\* be drawn raises, and line 371 gives the request up
WorkerCompositeMaskFatal ==
    /\ wk.pc = "composite"
    /\ IF CompositeRaises \/ ~rounded_ok
       THEN /\ wk' = [wk EXCEPT !.pc = "finally"]
            /\ calls' = [calls EXCEPT ![Cur].outcome = "aborted"]
            /\ UNCHANGED <<cache, inserted>>
       ELSE /\ wk' = [wk EXCEPT !.pc = "schedule", !.photo = Composite(Cur)]
            /\ cache' = DictSet(cache, wk.url, Composite(Cur))
            /\ inserted' = inserted \cup {wk.url}
            /\ calls' = [calls EXCEPT ![Cur].outcome = "composited"]
    /\ UNCHANGED <<queue, unfinished_tasks, current_theme, env, labels, ui,
                   pending>>

\* a worker without the except of line 371: the exception of line 342 or
\* line 345 ends the thread
WorkerCompositeDies ==
    /\ wk.pc = "composite"
    /\ IF CompositeRaises
       THEN /\ wk' = [wk EXCEPT !.pc = "dead"]
            /\ calls' = [calls EXCEPT ![Cur].outcome = "aborted"]
            /\ UNCHANGED <<cache, inserted>>
       ELSE /\ wk' = [wk EXCEPT !.pc = "schedule", !.photo = Composite(Cur)]
            /\ cache' = DictSet(cache, wk.url, Composite(Cur))
            /\ inserted' = inserted \cup {wk.url}
            /\ calls' = [calls EXCEPT ![Cur].outcome = "composited"]
    /\ UNCHANGED <<queue, unfinished_tasks, current_theme, env, labels, ui,
                   pending>>

\* lines 341-359: composite on the themed background, build the PhotoImage,
\* insert it into the cache.  An image that cannot be loaded raises at line
\* 342 and a malformed theme colour at line 345, which line 371 swallows.
WorkerComposite ==
    /\ wk.pc = "composite"
    /\ IF CompositeRaises
       THEN /\ wk' = [wk EXCEPT !.pc = "finally"]
            /\ calls' = [calls EXCEPT ![Cur].outcome = "aborted"]
            /\ UNCHANGED <<cache, inserted>>
       ELSE /\ wk' = [wk EXCEPT !.pc = "schedule", !.photo = Composite(Cur)]
            /\ cache' = DictSet(cache, wk.url, Composite(Cur))
            /\ inserted' = inserted \cup {wk.url}
            /\ calls' = [calls EXCEPT ![Cur].outcome = "composited"]
    /\ UNCHANGED <<queue, unfinished_tasks, current_theme, env, labels, ui,
                   pending>>

\* a worker that calls assign() itself instead of handing it to after()
WorkerScheduleDirect ==
    /\ wk.pc = "schedule"
    /\ labels' = IF labels[wk.target_label].alive
                 THEN [labels EXCEPT ![wk.target_label] =
                        [Configure(@, wk.photo, "worker", Cur) EXCEPT !.image = wk.photo]]
                 ELSE labels
    /\ wk' = [wk EXCEPT !.pc = "finally"]
    /\ UNCHANGED <<cache, queue, unfinished_tasks, current_theme, env, ui,
                   pending, calls, inserted>>

\* a worker without the except of line 371: the TclError of after() on a
\* destroyed label ends the thread
WorkerScheduleDies ==
    /\ wk.pc = "schedule"
    /\ pending' = IF labels[wk.target_label].alive
                  THEN Append(pending, [by |-> Cur, via |-> wk.target_label])
                  ELSE pending
    /\ wk' = [wk EXCEPT !.pc = IF labels[wk.target_label].alive
                               THEN "finally" ELSE "dead"]
    /\ UNCHANGED <<cache, queue, unfinished_tasks, current_theme, env, labels,
                   ui, calls, inserted>>

\* line 368: target_label.after(0, assign); on a destroyed label it raises
\* TclError, which line 371 swallows
WorkerSchedule ==
    /\ wk.pc = "schedule"
    /\ pending' = IF labels[wk.target_label].alive
                  THEN Append(pending, [by |-> Cur, via |-> wk.target_label])
                  ELSE pending
    /\ wk' = [wk EXCEPT !.pc = "finally"]
    /\ UNCHANGED <<cache, queue, unfinished_tasks, current_theme, env, labels,
                   ui, calls, inserted>>

\* lines 373-377: task_done, its ValueError swallowed; the loop goes on
WorkerFinally ==
    /\ wk.pc = "finally"
    /\ unfinished_tasks' = task_done(unfinished_tasks)
    /\ wk' = [wk EXCEPT !.pc = "get"]
    /\ UNCHANGED <<cache, queue, current_theme, env, labels, ui, pending,
                   calls, inserted>>

\* ------------------------------------------------------- specifications
UIStep ==
    \/ UIRequest
    \/ UIRequestRetain
    \/ UIRunAssign
    \/ UIAssignRetain
    \/ UIRefreshCardsDestroy
    \/ UIModalDestroy

WorkerStep ==
    \/ WorkerGet
    \/ WorkerGetEmpty
    \/ WorkerFetch
    \/ WorkerComposite
    \/ WorkerSchedule
    \/ WorkerFinally

\* the loader and its callers
Next == UIStep \/ WorkerStep

Spec == Init /\ [][Next]_vars

\* the loader, its callers and the theme switch
NextTheme == Next \/ UIToggleTheme

SpecTheme == Init /\ [][NextTheme]_vars

\* the Tk event loop goes on running handlers and timer callbacks
UIEventLoop == UIRequestRetain \/ UIRunAssign \/ UIAssignRetain

\* the runs of the fair specification start with no file on disk
InitFair == InitWith(FsNothing, MaxRequests)

\* the worker thread and the event loop are scheduled again and again
FairSpec ==
    InitFair /\ [][Next]_vars /\ WF_vars(WorkerStep) /\ WF_vars(UIEventLoop)

\* a burst: the callers make one request more, with no file on disk
InitBurst == InitWith(FsNothing, MaxRequests + 1)

SpecBurst == InitBurst /\ [][Next]_vars

\* runs in which each stage of the worker can fail: the local image is cut
\* short, no fallback file is there, labels are destroyed
InitFailures == InitWith(FsTruncatedLocal, MaxRequests)

SpecFailures == InitFailures /\ [][Next]_vars

\* the loader from the start of its worker thread, inside the constructor
InitCtor ==
    /\ InitLoaderAt("ctor_theme")
    /\ fs = FsLocalOnly
    /\ rounded_ok = TRUE
    /\ raw_size = RawPoster
    /\ themes = ThemeTable
    /\ max_calls = MaxRequests

NextCtor == CtorAssignTheme \/ CtorAssignFallbacks \/ Next

SpecCtor == InitCtor /\ [][NextCtor]_vars

\* the loader on a platform that cannot draw the rounded mask
InitMask ==
    /\ InitLoader
    /\ fs = FsLocalOnly
    /\ rounded_ok = FALSE
    /\ raw_size = RawPoster
    /\ themes = ThemeTable
    /\ max_calls = MaxRequests

SpecMask == InitMask /\ [][Next]_vars

\* the loader on sources whose images have any of the sizes over RawDims
InitSizes ==
    /\ InitLoader
    /\ fs = FsLocalOnly
    /\ rounded_ok = TRUE
    /\ raw_size \in RawDims \X RawDims
    /\ themes = ThemeTable
    /\ max_calls = MaxRequests

SpecSizes == InitSizes /\ [][Next]_vars

\* the loader under a theme whose dark card colour is any of CardColours
InitColours ==
    /\ InitLoader
    /\ fs = FsLocalOnly
    /\ rounded_ok = TRUE
    /\ raw_size = RawPoster
    /\ themes \in {[ThemeTable EXCEPT !["dark"] = c] : c \in CardColours}
    /\ max_calls = MaxRequests

SpecColours == InitColours /\ [][Next]_vars

\* the resolver on every filesystem: the callers request and the worker
\* serves; no callback is delivered and no widget destroyed
InitResolve ==
    \E files \in [Paths -> FileKinds] : InitWith(files, MaxResolveCalls)

NextResolve == UIRequest \/ UIRequestRetain \/ WorkerStep

SpecResolve == InitResolve /\ [][NextResolve]_vars

\* ----------------------------------------------------------- properties
Labels == 1..Len(labels)

Requests == 1..Len(calls)

\* request r was put on the queue by request()
Enqueued(r) == r \in Requests /\ ~calls[r].hit

\* the worker is done with r: it dropped it, composited it, or gave it up
Processed(r) == r \in Requests /\ calls[r].outcome # "none"

\* r has never been on the queue: it is not queued, the worker never held
\* it, nothing is scheduled for it
NeverQueued(r) ==
    /\ \A i \in 1..Len(queue) : queue[i].target_label # r
    /\ \A i \in 1..Len(pending) : pending[i].by # r
    /\ calls[r].outcome = "none"
    /\ ~calls[r].resolved
    /\ labels[r].by # r

\* nothing is queued, in progress or scheduled
Quiet ==
    /\ queue = <<>>
    /\ pending = <<>>
    /\ wk.pc \in {"get", "finally"}
    /\ ui.pc = "idle"

\* C1: every assignment of a surface to a label, on the cache-hit path of
\* request and by the deferred assign, is done by the UI thread; the worker
\* thread never writes a surface onto a label.
C1_SingleWriter ==
    \A l \in Labels :
        /\ labels[l].writer \in {"none", "ui"}
        /\ labels[l].shown # NoPhoto => labels[l].writer = "ui"

\* C1: the deferred assign has written one label, the cache-hit path another
C1_Witness ==
    \E l1, l2 \in Labels :
        /\ labels[l1].by # 0
        /\ calls[l2].hit
        /\ labels[l2].shown # NoPhoto

\* C2: the deferred assign scheduled for a request assigns that request's
\* own surface to that request's own label, whenever it runs.
C2_DeferredAssignOwn ==
    \A l \in Labels :
        labels[l].by # 0 => labels[l].by = l /\ labels[l].shown.id = l

\* C3: once nothing is queued, in progress or scheduled, every label that is
\* alive and whose reference resolved to an image displays a surface.
C3_AllDelivered ==
    Quiet =>
        \A l \in Labels :
            labels[l].alive /\ calls[l].resolved => labels[l].shown # NoPhoto

\* C4: every request put on the queue is eventually processed by the worker
\* (dropped or composited), whatever happened to its label and to the
\* requests before it.  A request stays enqueued and stays processed once
\* it is, so "enqueued leads to processed" is: again and again, the request
\* is processed if it is enqueued.
C4_EveryRequestProcessed ==
    \A r \in 1..MaxRequests : []<>(Enqueued(r) => Processed(r))

\* C4: a request was composited although its label was destroyed and the
\* request before it was dropped
C4_Witness ==
    \E q, r \in Requests :
        /\ q < r
        /\ calls[q].outcome = "dropped"
        /\ calls[r].outcome = "composited"
        /\ ~labels[r].alive
        /\ wk.pc = "get"

\* C5: every surface a label displays has the width and height of the
\* request made for that label.
C5_SurfaceHasRequestSize ==
    \A l \in Labels :
        labels[l].shown # NoPhoto =>
            /\ labels[l].shown.w = calls[l].width
            /\ labels[l].shown.h = calls[l].height

\* C6: a request that finds its reference in the cache has assigned a cached
\* surface of that reference to its label by the time the lookup step ends,
\* retains it when it returns, and never puts anything on the queue: the
\* worker never resolves or composites for it.
C6_CacheHitSynchronous ==
    \A r \in Requests :
        calls[r].hit =>
            /\ labels[r].shown # NoPhoto
            /\ labels[r].shown.url = calls[r].url
            /\ labels[r].by = 0
            /\ ui.cur # r => labels[r].image # NoPhoto
            /\ NeverQueued(r)
            /\ wk.target_label # r

\* C6: a cache-hit request has returned, its label displays and retains the
\* cached surface, and the queue is empty
C6_Witness ==
    \E r \in Requests :
        /\ calls[r].hit
        /\ ui.pc = "idle"
        /\ labels[r].shown # NoPhoto
        /\ labels[r].image # NoPhoto
        /\ queue = <<>>

\* C7: a request call that misses the cache appends exactly its own item to
\* the queue and returns: the UI thread is back in the event loop, the worker
\* is where it was, the new label displays nothing, every other label and the
\* cache are unchanged.
C7_CacheMissEnqueues ==
    [][(Len(calls') = Len(calls) + 1 /\ ~InCache(cache, calls'[Len(calls')].url)) =>
        LET r == Len(calls')
            c == calls'[r] IN
            /\ queue' = Append(queue, Item(c.url, c.width, c.height, r))
            /\ cache' = cache
            /\ ui' = ui
            /\ ui'.pc = "idle"
            /\ wk' = wk
            /\ pending' = pending
            /\ labels'[r].shown = NoPhoto
            /\ labels'[r].image = NoPhoto
            /\ SubSeq(labels', 1, Len(labels)) = labels]_vars

\* C7: a request missed a cache that holds another reference and waits in
\* the queue while its label displays nothing
C7_Witness ==
    /\ cache # {}
    /\ Len(queue) = 1
    /\ ~InCache(cache, queue[1].url)
    /\ labels[queue[1].target_label].shown = NoPhoto
    /\ ui.pc = "idle"

\* C8: the cache never loses a reference it holds, and holds at most one
\* entry per reference.
C8_CacheNeverEvicts ==
    /\ [](\A e1, e2 \in cache : e1.key = e2.key => e1 = e2)
    /\ [][\A e \in cache : InCache(cache', e.key)]_vars

\* C8: a second reference was inserted and the first is still cached
C8_Witness ==
    /\ Cardinality(cache) = 2
    /\ \A r \in Requests : InCache(cache, calls[r].url)

\* C9: a request call made after a cache insert for its reference is served
\* from the cache: it is never queued, resolved or composited.
C9_NoRefetchAfterInsert ==
    \A r \in Requests :
        calls[r].after_insert =>
            /\ calls[r].hit
            /\ NeverQueued(r)
            /\ wk.target_label # r

\* C9: a request made after the insert for its reference has returned
C9_Witness ==
    \E r \in Requests :
        /\ calls[r].after_insert
        /\ labels[r].image # NoPhoto
        /\ ui.pc = "idle"

\* C10: the surface the cache holds for a reference has the dimensions of
\* every surface that was inserted for that reference before.
C10_StableCacheDimensions ==
    \A e \in cache :
        \A r \in Requests :
            calls[r].url = e.key /\ calls[r].outcome = "composited" =>
                e.val.w = calls[r].width /\ e.val.h = calls[r].height

\* C11: when a request that found its reference in the cache has returned,
\* the surface its label displays and the surface its label retains are the
\* same surface, however the worker's inserts interleave with the request.
C11_HitLookupAtomic ==
    \A r \in Requests :
        calls[r].hit /\ ui.cur # r => labels[r].shown = labels[r].image

\* _fetch_image has returned for the item the worker holds
Fetched == wk.target_label # 0 /\ wk.pc # "fetch"

\* C12: the resolver attempts the network step only for a non-empty
\* reference that begins with the network prefix, the local-path step only
\* if the network step gave no image, the fallbacks only if neither gave one;
\* the result is the image of the first step that gives one, and is absent
\* exactly when every step, down to the last fallback, gave none.
C12_OrderedPolicy ==
    Fetched =>
        LET st == wk.steps
            n == Len(st)
        IN /\ \A i \in 1..n :
                  st[i].step = "net" =>
                      i = 1 /\ wk.url # <<>> /\ StartsWith(wk.url, HttpPrefix)
           /\ \A i \in 1..n :
                  st[i].step = "local" =>
                      \A j \in 1..(i - 1) : st[j].step = "net" /\ ~st[j].got
           /\ \A i \in 1..n :
                  st[i].step = "fallback" => \A j \in 1..(i - 1) : ~st[j].got
           /\ \A i \in 1..n :
                  st[i].step \in {"local", "fallback"} =>
                      st[i].got = (PathKind(st[i].path) \in {"image", "truncated"})
           /\ \A i \in 1..n :
                  st[i].got =>
                      i = n /\ wk.img = [src |-> st[i].step, path |-> st[i].path]
           /\ wk.img = NoImage <=> \A i \in 1..n : ~st[i].got
           /\ wk.img = NoImage =>
                  \A k \in 1..Len(fallback_paths) :
                      \E i \in 1..n :
                          st[i].step = "fallback" /\ st[i].path = fallback_paths[k]

\* C12: the network step failed, the local step found nothing, the first
\* fallback gave nothing and the second fallback gave the image
C12_Witness ==
    /\ Fetched
    /\ Len(wk.steps) = 4
    /\ wk.steps[1].step = "net"
    /\ wk.steps[4].got
    /\ wk.img = [src |-> "fallback", path |-> fallback_paths[2]]

\* fallback i exists and opens
FallbackOpens(i) ==
    PathKind(fallback_paths[i]) \in {"image", "truncated"}

\* the image of the first fallback that exists and opens, if there is one
FirstFallback ==
    IF \E i \in 1..Len(fallback_paths) : FallbackOpens(i)
    THEN LET i == CHOOSE i \in 1..Len(fallback_paths) :
                      FallbackOpens(i) /\ \A j \in 1..(i - 1) : ~FallbackOpens(j)
         IN [src |-> "fallback", path |-> fallback_paths[i]]
    ELSE NoImage

\* C13: for a reference that the network does not deliver and that is not a
\* local path that opens, the resolver returns the first fallback that exists
\* and opens; every call that ends in the fallbacks, the one in progress and
\* the ones whose surfaces are cached, returns that same entry.
C13_FallbackOrdering ==
    /\ Fetched =>
           ((\A i \in 1..Len(wk.steps) :
                 wk.steps[i].step \in {"net", "local"} => ~wk.steps[i].got)
               => wk.img = FirstFallback)
    /\ Fetched /\ wk.img.src = "fallback" => wk.img = FirstFallback
    /\ \A e \in cache : e.val.img.src = "fallback" => e.val.img = FirstFallback

\* C13: two calls have ended in the fallbacks, with the first fallback
\* unusable: the surface of one is cached, the other has just returned
C13_Witness ==
    /\ ~FallbackOpens(1)
    /\ Fetched
    /\ wk.img.src = "fallback"
    /\ \E e \in cache :
           e.val.id # wk.target_label /\ e.val.img.src = "fallback"

\* the step the policy takes after attempt s gave no image: s itself when s
\* is the last fallback
StepAfter(s) ==
    IF s.step = "net" THEN [step |-> "local", path |-> s.path]
    ELSE IF s.step = "local" THEN [step |-> "fallback", path |-> fallback_paths[1]]
    ELSE LET k == CHOOSE k \in 1..Len(fallback_paths) : fallback_paths[k] = s.path
         IN IF k < Len(fallback_paths)
            THEN [step |-> "fallback", path |-> fallback_paths[k + 1]]
            ELSE [step |-> s.step, path |-> s.path]

C15_TotalFailureSilent ==
    \A r \in Requests :
        calls[r].outcome = "dropped" =>
            /\ \A e \in cache : e.val.id # r
            /\ \A i \in 1..Len(pending) : pending[i].by # r
            /\ labels[r].shown = NoPhoto
            /\ labels[r].image = NoPhoto
            /\ wk.pc # "dead"

C17_WorkerNeverDies ==
    /\ [](wk.pc \in {"get", "fetch", "composite", "schedule", "finally"})
    /\ [](ENABLED WorkerStep)
    /\ [](wk.pc = "get" /\ queue # <<>> => ENABLED WorkerGet)
    /\ [][/\ (Cur # 0 /\ calls[Cur].outcome = "none"
               /\ calls'[Cur].outcome \in {"dropped", "aborted"})
              => wk'.pc = "finally"
          /\ (wk.pc = "schedule" /\ wk'.pc # "schedule" /\ ~labels[Cur].alive)
              => wk'.pc = "finally"
          /\ (wk.pc = "finally" /\ wk'.pc # "finally") => wk'.pc = "get"]_vars

\* C17: a request failed in compositing, and the worker has since taken
\* the request queued behind it and composited that one
C17_Witness ==
    \E q, r \in Requests :
        /\ q < r
        /\ calls[q].outcome = "aborted"
        /\ calls[r].outcome = "composited"

\* C18: the worker takes the requests off the queue, and schedules their
\* deliveries, in the order request() put them (requests are numbered in
\* call order).  The queue holds exactly the enqueued requests that come
\* after the one the worker took last, oldest first; the worker's next
\* request is always the oldest queued; the timer queue holds deliveries in
\* request order, each appended for the request the worker is processing.
C18_FifoOrder ==
    /\ [](/\ \A i \in 1..Len(queue) :
                \A j \in 1..Len(queue) :
                    i < j => queue[i].target_label < queue[j].target_label
          /\ \A r \in Requests :
                (Enqueued(r) /\ r > Cur)
                    <=> \E i \in 1..Len(queue) : queue[i].target_label = r
          /\ \A i \in 1..Len(pending) :
                /\ pending[i].by <= Cur
                /\ \A j \in 1..Len(pending) :
                      i < j => pending[i].by < pending[j].by)
    /\ [][/\ Cur' # Cur =>
                /\ queue # <<>>
                /\ Cur' = Head(queue).target_label
                /\ queue' = Tail(queue)
                /\ \A r \in Requests : Enqueued(r) /\ r < Cur' => r <= Cur
          /\ pending' # pending =>
                \/ pending # <<>> /\ pending' = Tail(pending)
                \/ pending' = Append(pending, [by |-> Cur, via |-> Cur])]_vars

\* C18: two requests were queued together, the worker took both, and both
\* deliveries are on the timer queue, the older request's first
C18_Witness ==
    /\ Len(pending) = 2
    /\ pending[1].by = 1
    /\ pending[2].by = 2
    /\ calls[2].after_insert = FALSE
    /\ calls[1].url # calls[2].url

\* requests q and r are for the same reference, and r was made before the
\* worker was done with q
Duplicates(q, r) ==
    /\ q \in Requests
    /\ r \in Requests
    /\ q < r
    /\ calls[q].url = calls[r].url
    /\ ~calls[q].hit
    /\ ~calls[r].hit

\* C19: once nothing is queued, in progress or scheduled, two requests for
\* the same reference that were both made before the first was resolved,
\* whose resolutions succeeded and whose labels are alive, both display a
\* surface, and the two surfaces have the same dimensions and the same
\* background fill.
C19_DuplicatesConverge ==
    \A q, r \in Requests :
        (/\ Duplicates(q, r)
         /\ Quiet
         /\ calls[q].outcome = "composited"
         /\ calls[r].outcome = "composited"
         /\ labels[q].alive
         /\ labels[r].alive)
        => /\ labels[q].shown # NoPhoto
           /\ labels[r].shown # NoPhoto
           /\ labels[q].shown.w = labels[r].shown.w
           /\ labels[q].shown.h = labels[r].shown.h
           /\ labels[q].shown.bg = labels[r].shown.bg

\* request r is for the reference of the earlier request q, which missed
\* the cache, and was made before any surface was inserted for it
SecondBeforeFirstResolves(q, r) ==
    /\ q \in Requests
    /\ r \in Requests
    /\ q < r
    /\ calls[q].url = calls[r].url
    /\ ~calls[q].hit
    /\ ~calls[r].after_insert

\* the last request composited for reference u
LastComposited(u) ==
    CHOOSE r \in Requests :
        /\ calls[r].url = u /\ calls[r].outcome = "composited"
        /\ \A x \in Requests :
               calls[x].url = u /\ calls[x].outcome = "composited" => x <= r

InProgress(r) ==
    /\ Enqueued(r)
    /\ \A i \in 1..Len(queue) : queue[i].target_label # r
    /\ calls[r].outcome = "none"

\* C21: one worker drains the queue: at most one request is being resolved,
\* decoded or composited, and it is the one the worker holds.
C21_SingleWorker ==
    /\ Cardinality({r \in Requests : InProgress(r)}) <= 1
    /\ \A r \in Requests :
           InProgress(r) => Cur = r /\ wk.pc \in {"fetch", "composite"}

\* C21: a request is being processed while another one waits in the queue
C21_Witness ==
    \E r \in Requests : InProgress(r) /\ queue # <<>>

\* a card colour is well formed: '#' and six hex digits
WellFormed(c) == Len(c) = 7 /\ c[1] = "#" /\ \A k \in 2..7 : IsHex(c[k])

\* C22: whatever the theme's card colour is, a request whose image resolved
\* ends composited, never given up; under a card colour that is missing or
\* malformed every surface in the cache has the default dark gray fill.
C22_MalformedColourDefault ==
    /\ \A r \in Requests :
           calls[r].resolved /\ Processed(r) => calls[r].outcome = "composited"
    /\ ~WellFormed(ThemeCard(current_theme)) =>
           \A e \in cache : e.val.bg = <<24, 24, 24>>

\* C23: where the rounded mask cannot be drawn, a request whose image
\* resolved still ends composited; its surface is the unmasked canvas of the
\* requested size, it is in the cache from then on, and the worker hands
\* its delivery to the timer queue like any other (the label being alive);
\* a label never displays anything else than such an unmasked surface.
C23_MaskFailureNonFatal ==
    /\ [](~rounded_ok =>
            /\ \A r \in Requests :
                   calls[r].resolved /\ Processed(r) =>
                       /\ calls[r].outcome = "composited"
                       /\ InCache(cache, calls[r].url)
            /\ \A e \in cache :
                   /\ ~e.val.masked
                   /\ e.val.w = calls[e.val.id].width
                   /\ e.val.h = calls[e.val.id].height
            /\ \A l \in Labels :
                   labels[l].shown # NoPhoto => ~labels[l].shown.masked)
    /\ [][(~rounded_ok /\ wk.pc = "schedule" /\ wk'.pc # "schedule"
              /\ labels[Cur].alive)
             => pending' = Append(pending, [by |-> Cur, via |-> Cur])]_vars

\* C23: the mask could not be drawn, and a label displays the unmasked
\* surface composited for its own request, which the cache holds
C23_Witness ==
    /\ ~rounded_ok
    /\ \E r \in Requests :
           /\ labels[r].shown # NoPhoto
           /\ labels[r].shown.id = r
           /\ ~labels[r].shown.masked
           /\ \E e \in cache : e.val = labels[r].shown

\* C24: for every raw image size and every target size the callers pass,
\* the scaled image has one side equal to its target bound and the other at
\* most its bound, both sides at least 1, and a request whose image
\* resolved is composited with non-negative paste offsets that keep the
\* scaled image inside the canvas.
C24_AspectPreserved ==
    /\ \A kind \in Kinds :
           LET T == SizeOf(kind)
               s == Contain(raw_size, T)
           IN /\ s[1] = T[1] \/ s[2] = T[2]
              /\ s[1] <= T[1] /\ s[2] <= T[2]
              /\ s[1] >= 1 /\ s[2] >= 1
    /\ \A r \in Requests :
           calls[r].resolved /\ Processed(r) => calls[r].outcome = "composited"
    /\ \A e \in cache :
           /\ e.val.paste[1] >= 0 /\ e.val.paste[2] >= 0
           /\ e.val.paste[1] + e.val.scaled[1] <= e.val.w
           /\ e.val.paste[2] + e.val.scaled[2] <= e.val.h

\* C25: besides the cache and the queue the worker reads no state that the
\* UI thread mutates: what it composites depends on the request, the
\* sources and the state at construction only.  So the fill of every
\* surface it built is the card colour of the theme that was active at
\* construction (ThemeManager starts dark), whatever the UI thread has done
\* to the theme manager since.
C25_WorkerReadsOnlyCacheAndQueue ==
    \A e \in cache : e.val.bg = BgRgb(themes["dark"])

\* C26: the worker inserts the surface of a request into the cache before
\* it schedules the delivery.  When the worker is about to schedule, the
\* request is composited and the cache holds its surface under its
\* reference; the step that schedules, or fails to because the label is
\* destroyed, leaves the cache as it is.
C26_InsertBeforeSchedule ==
    /\ [](wk.pc = "schedule" =>
            /\ calls[Cur].outcome = "composited"
            /\ wk.photo.id = Cur
            /\ InCache(cache, wk.url)
            /\ Lookup(cache, wk.url) = wk.photo)
    /\ [][(wk.pc = "schedule" /\ wk'.pc # "schedule") =>
              /\ cache' = cache
              /\ Lookup(cache', wk.url) = wk.photo
              /\ pending' # pending => labels[Cur].alive]_vars

\* C26: a request was composited, its label was destroyed before the worker
\* could schedule the delivery, nothing was scheduled, and the cache holds
\* the surface
C26_Witness ==
    \E r \in Requests :
        /\ calls[r].outcome = "composited"
        /\ ~labels[r].alive
        /\ Cur = r
        /\ wk.pc = "finally"
        /\ pending = <<>>
        /\ \A l \in Labels : labels[l].by # r
        /\ \E e \in cache : e.val.id = r

\* C27: whenever a label is given a surface to display, by the cache-hit
\* path of request or by the deferred assign, the fill of that surface is
\* the card colour of the theme active at that moment.
C27_FillIsActiveTheme ==
    [][\A l \in 1..Len(labels') :
          (labels'[l].shown # NoPhoto
              /\ (l > Len(labels) \/ labels'[l].shown # labels[l].shown))
          => labels'[l].shown.bg = BgRgb(ThemeCard(current_theme))]_vars

\* every request made so far for reference u was dropped or is not done
NeverResolved(u) ==
    \A r \in Requests :
        calls[r].url = u => calls[r].outcome \in {"none", "dropped"}

\* C28: a surface made from a fallback image is cached under the request's
\* reference like any other: every composited request has an entry under
\* its reference, and a request made after the insert hits the cache, is
\* never queued or resolved, and displays a cached surface of the reference
\* (for the empty reference, a fallback surface).  A reference whose
\* requests all failed is not in the cache, and a later request for it
\* misses, is queued and is resolved again.
C28_FallbackCached ==
    /\ \A r \in Requests :
           calls[r].outcome = "composited" => InCache(cache, calls[r].url)
    /\ \A r \in Requests :
           calls[r].after_insert =>
               /\ calls[r].hit
               /\ NeverQueued(r)
               /\ Cur # r
               /\ labels[r].shown.url = calls[r].url
               /\ labels[r].shown.id < r
               /\ calls[r].url = RefEmpty => labels[r].shown.img.src = "fallback"
    /\ \A u \in Refs : NeverResolved(u) => ~InCache(cache, u)
    /\ \A q, r \in Requests :
           (q < r /\ calls[q].url = calls[r].url /\ ~calls[r].after_insert) =>
               /\ ~calls[r].hit
               /\ ~NeverQueued(r) \/ Cur = r
               /\ Quiet => Processed(r)

\* C28: the empty reference resolved through the fallbacks, and a later
\* request for it was served the fallback surface from the cache
C28_Witness ==
    \E q, r \in Requests :
        /\ q < r
        /\ calls[q].url = RefEmpty
        /\ calls[r].url = RefEmpty
        /\ calls[q].outcome = "composited"
        /\ calls[r].hit
        /\ ui.pc = "idle"
        /\ labels[r].shown.id = q
        /\ labels[r].shown.img.src = "fallback"

\* C29: the unfinished-task counter is the number of requests still queued
\* plus the one being processed: the length of the queue when the worker is
\* about to get, one more while the worker resolves, composites or
\* schedules the request it took.
C29_CounterExact ==
    /\ wk.pc = "get" => unfinished_tasks = Len(queue)
    /\ wk.pc \in {"fetch", "composite", "schedule"} =>
           unfinished_tasks = Len(queue) + 1

\* C30: the worker never reads theme or fallback_paths before the
\* constructor assigned them.  The worker reads fallback_paths when it
\* resolves and theme when it composites: while it is at either step both
\* fields are assigned; as long as the constructor runs nothing is queued
\* and every step of the worker is a get that times out or the finally
\* clause after it.
C30_NoReadBeforeAssigned ==
    /\ [](wk.pc = "fetch" => FallbacksAssigned)
    /\ [](wk.pc = "composite" => ThemeAssigned)
    /\ [](~FallbacksAssigned => queue = <<>> /\ calls = <<>>)
    /\ [][(~FallbacksAssigned /\ wk' # wk) => wk'.pc \in {"get", "finally"}]_vars

\* C30: the worker has run, a get of it has timed out, and the constructor
\* has not yet assigned theme
C30_Witness ==
    /\ ~ThemeAssigned
    /\ wk.pc = "finally"

====
